---- MODULE Spec2Model ----
(***************************************************************************)
(* Model of the bank-statement parser agent (agent.py): the session record *)
(* AgentState, the retry loop BankParserAgent.run with the helpers it      *)
(* calls, and the comparison script that test_parser runs in a child       *)
(* process.                                                                *)
(*                                                                         *)
(* Text is modelled as a sequence of tokens.  A token is a piece of the    *)
(* text that the code looks at as a whole: a markdown fence, the pandas    *)
(* import line, a newline, prose, or a body of Python code.  A body token  *)
(* names what that code does when the test script imports it and calls     *)
(* parse().                                                                *)
(***************************************************************************)
EXTENDS Integers, Sequences, FiniteSets, TLC

\* AgentState.max_attempts (default value of the dataclass field)
MaxAttempts == 3

\* Largest number of cells (rows * columns) of a candidate DataFrame.
MaxCells == 4

-----------------------------------------------------------------------------
(* DataFrames *)

\* A missing value (NaN) and two numbers.
NaN == "NaN"
Cells == {NaN, "0.0", "5.0"}

ColumnNames == {"Debit Amt", "Credit Amt", "Balance"}

\* The reference dataset data/<bank>/result.csv as pd.read_csv loads it.
expected_df ==
    [columns |-> <<"Debit Amt", "Credit Amt">>,
     rows    |-> << <<"5.0", NaN>>, <<NaN, "5.0">> >>]

\* DataFrame.shape
Shape(df) == <<Len(df.rows), Len(df.columns)>>

Injective(s) == \A i, j \in 1..Len(s) : s[i] = s[j] => i = j

ColumnSeqs ==
    { s \in UNION { [1..n -> ColumnNames] : n \in 1..Cardinality(ColumnNames) } :
        Injective(s) }

\* Every DataFrame over ColumnNames and Cells with at most MaxCells cells.
Frames ==
    UNION { UNION { { [columns |-> cs, rows |-> rs] :
                        rs \in [1..n -> [1..Len(cs) -> Cells]] } :
                    n \in { m \in 0..MaxCells : m * Len(cs) <= MaxCells } } :
            cs \in ColumnSeqs }

\* icici_parser.py: pd.to_numeric(...).fillna(0.0) on the amount columns.
FillNaZero(df) ==
    [df EXCEPT !.rows =
        [i \in 1..Len(df.rows) |->
            [j \in 1..Len(df.columns) |->
                IF df.rows[i][j] = NaN THEN "0.0" ELSE df.rows[i][j]]]]

\* The comparison with the column check before the shape check.
CompareFrames_ColumnsFirst(result_df, exp_df) ==
    IF result_df.columns # exp_df.columns THEN "Column mismatch"
    ELSE IF Shape(result_df) # Shape(exp_df) THEN "Shape mismatch"
    ELSE "Parser test passed"

\* The comparison with the columns compared as sets of names.
CompareFrames_AnyOrder(result_df, exp_df) ==
    IF Shape(result_df) # Shape(exp_df) THEN "Shape mismatch"
    ELSE IF {result_df.columns[i] : i \in 1..Len(result_df.columns)}
            # {exp_df.columns[i] : i \in 1..Len(exp_df.columns)}
         THEN "Column mismatch"
    ELSE "Parser test passed"

\* The comparison with a cell-by-cell check in which a missing value equals
\* nothing, not even a missing value.
CompareFrames_NaNUnequal(result_df, exp_df) ==
    IF Shape(result_df) # Shape(exp_df) THEN "Shape mismatch"
    ELSE IF result_df.columns # exp_df.columns THEN "Column mismatch"
    ELSE IF \E i \in 1..Len(exp_df.rows) : \E j \in 1..Len(exp_df.columns) :
                \/ result_df.rows[i][j] = NaN
                \/ result_df.rows[i][j] # exp_df.rows[i][j]
         THEN "Value mismatch"
    ELSE "Parser test passed"

\* The comparison of the test script: shape, then columns.
CompareFrames(result_df, exp_df) ==
    IF Shape(result_df) # Shape(exp_df) THEN "Shape mismatch"
    ELSE IF result_df.columns # exp_df.columns THEN "Column mismatch"
    ELSE "Parser test passed"

-----------------------------------------------------------------------------
(* Text as token sequences *)

\* The markdown fences: three backquotes, with and without the language tag.
FENCE_PY == "<fence>python"
FENCE    == "<fence>"
IMPORT   == "import pandas as pd"
NL       == "\n"
PROSE    == "Here is the parser:"

\* Bodies of Python code, named by what the code does in the test script.
SYNTAX_ERROR == "def parse(:"
NO_PARSE     == "def extract(pdf_path): ..."
PARSE_RAISES == "def parse(pdf_path): raise"
PARSE_HANGS  == "def parse(pdf_path): while True"
PARSE_NOT_DF == "def parse(pdf_path): return []"
PARSE_EXACT  == "def parse(pdf_path): return exact"
PARSE_FILLNA == "def parse(pdf_path): return fillna"
PARSE_VALUE  == "def parse(pdf_path): return value"
PARSE_ORDER  == "def parse(pdf_path): return order"
PARSE_SHORT  == "def parse(pdf_path): return short"

\* Bodies whose parse() returns a DataFrame, and the frame each returns.
FrameBodies == {PARSE_EXACT, PARSE_FILLNA, PARSE_VALUE, PARSE_ORDER, PARSE_SHORT}

Output(body) ==
    CASE body = PARSE_EXACT  -> expected_df
      [] body = PARSE_FILLNA -> FillNaZero(expected_df)
      [] body = PARSE_VALUE  -> [expected_df EXCEPT !.rows[1][1] = "0.0"]
      [] body = PARSE_ORDER  ->
            [columns |-> <<expected_df.columns[2], expected_df.columns[1]>>,
             rows    |-> [i \in 1..Len(expected_df.rows) |->
                            <<expected_df.rows[i][2], expected_df.rows[i][1]>>]]
      [] body = PARSE_SHORT  -> [expected_df EXCEPT !.rows = SubSeq(@, 1, 1)]

Bodies ==
    {SYNTAX_ERROR, NO_PARSE, PARSE_RAISES, PARSE_HANGS, PARSE_NOT_DF} \cup FrameBodies

Contains(s, t) == \E i \in 1..Len(s) : s[i] = t

\* Index of the first occurrence of t in s, Len(s) + 1 when there is none.
Find(s, t) ==
    IF Contains(s, t)
    THEN CHOOSE i \in 1..Len(s) : s[i] = t /\ \A j \in 1..(i - 1) : s[j] # t
    ELSE Len(s) + 1

\* s.split(t)[0]
Split0(s, t) == SubSeq(s, 1, Find(s, t) - 1)

\* s.split(t)[1], for s that contains t
Split1(s, t) == Split0(SubSeq(s, Find(s, t) + 1, Len(s)), t)

\* str.strip(): leading and trailing whitespace removed.
RECURSIVE LStrip(_)
LStrip(s) == IF s # <<>> /\ Head(s) = NL THEN LStrip(Tail(s)) ELSE s

RECURSIVE RStrip(_)
RStrip(s) ==
    IF s # <<>> /\ s[Len(s)] = NL THEN RStrip(SubSeq(s, 1, Len(s) - 1)) ELSE s

Strip(s) == RStrip(LStrip(s))

\* BankParserAgent._clean_generated_code
CleanGeneratedCode(code) ==
    LET unfenced ==
            IF Contains(code, FENCE_PY) THEN Split0(Split1(code, FENCE_PY), FENCE)
            ELSE IF Contains(code, FENCE) THEN Split0(Split1(code, FENCE), FENCE)
            ELSE code
        imported ==
            IF ~Contains(unfenced, IMPORT) THEN <<IMPORT, NL>> \o unfenced
            ELSE unfenced
    IN  Strip(imported)

\* What the backend may answer to a generation request.
Responses ==
    {<<>>}
    \cup { <<b>> : b \in Bodies }
    \cup { <<IMPORT, NL, b>> : b \in Bodies }
    \cup { <<PROSE, NL, FENCE_PY, NL, IMPORT, NL, b, NL, FENCE, NL, PROSE>> : b \in Bodies }
    \cup { <<FENCE, NL, b, NL, FENCE>> : b \in Bodies }
    \cup { <<PROSE, NL, b>> : b \in Bodies }

\* A reply of the backend: a text, or an error raised by the client library.
Replies == [ok : {TRUE}, text : Responses] \cup {[ok |-> FALSE, text |-> <<>>]}

\* BankParserAgent._call_llm: the text, or "" when the call raised.
CallLLM(reply) == IF reply.ok THEN reply.text ELSE <<>>

\* Whether Python compiles the text (a syntax-only parse).
SyntaxOK(code) ==
    \A i \in 1..Len(code) : code[i] \notin {SYNTAX_ERROR, PROSE, FENCE, FENCE_PY}

\* The body that defines parse in the module (the last definition wins).
DefinesParse(code) == \E i \in 1..Len(code) : code[i] \in Bodies \ {NO_PARSE}

ParseBody(code) ==
    code[CHOOSE i \in 1..Len(code) :
            /\ code[i] \in Bodies \ {NO_PARSE}
            /\ \A j \in (i + 1)..Len(code) : code[j] \notin Bodies \ {NO_PARSE}]

\* The test script of test_parser, run on the module text `code`:
\* what the child process does, as [returncode, output] or "hang".
TestScript(code, exp_df) ==
    IF ~SyntaxOK(code) THEN [returncode |-> 1, out |-> "SyntaxError"]
    ELSE IF ~DefinesParse(code) THEN [returncode |-> 1, out |-> "ImportError"]
    ELSE LET body == ParseBody(code) IN
         CASE body = PARSE_RAISES -> [returncode |-> 1, out |-> "Exception"]
           [] body = PARSE_HANGS  -> [returncode |-> -1, out |-> "hang"]
           [] body = PARSE_NOT_DF -> [returncode |-> 1, out |-> "AttributeError"]
           [] OTHER ->
                LET verdict == CompareFrames(Output(body), exp_df) IN
                [returncode |-> IF verdict = "Parser test passed" THEN 0 ELSE 1,
                 out        |-> verdict]

-----------------------------------------------------------------------------
(* The session *)

VARIABLES
    pdf_exists,     \* data/<bank>/<bank> sample.pdf exists
    csv_exists,     \* data/<bank>/result.csv exists
    csv_parses,     \* pd.read_csv can load it
    state,          \* the AgentState record of run
    analysis,       \* run's local: the keys of analysis['csv_schema'], or "unset"
    plan,           \* run's local: the text plan_approach returned
    test_result,    \* run's locals success, result
    parser_file,    \* the file at state.parser_path
    temp_test,      \* whether temp_test.py exists
    llm_calls,      \* requests sent to the backend so far
    pc,             \* the statement of run that executes next
    ret,            \* how run ended: "none", "True", "False", "KeyError"
    tested,         \* history: the attempts in which test_parser was called
    gen_empty,      \* history: the attempts whose generation reply was ""
    exact_at,       \* history: the attempts whose compared output equalled the reference
    first_pass,     \* history: the first attempt whose test passed, 0 if none
    err_at,         \* history: the attempt that appended each entry of state.errors
    cmp_result,     \* comparator run: the candidate's DataFrame
    cmp_expected,   \* comparator run: the reference DataFrame
    cmp_out,        \* comparator run: what the script printed, "not run" before
    api_key,        \* the provider's API key is set in the environment
    exit_code,      \* the exit code of the process started by main, -1 while it runs
    backend_requests, \* requests that reached the backend so far
    prompt,         \* generate_parser_code's prompt, until run's next step
    child,          \* the child process of the last test: "none", "exited", "killed"
    gen_failed,     \* history: the attempts whose generation request raised
    written_by,     \* history: the attempt whose code parser_file holds, 0 if none
    lost,           \* history: a save replaced the code an earlier attempt stored
    printed,        \* the attempt number generate_parser_code printed last
    debug_calls,    \* history: how often self_debug was called
    vcmp_out,       \* the verdict of the variant controller's comparison
    v_state,        \* variant controller: the AgentState record of run
    attempt,        \* variant controller: the loop variable of run
    v_code,         \* variant controller: run's local code
    attempt_files,  \* variant controller: the files {bank}_parser_attempt{k}.py
    v_pc,           \* variant controller: where run is
    v_writes,       \* history: the files run opened for writing, in order
    v_loaded,       \* history: the modules run loaded with exec_module
    v_compiled,     \* history: the attempts whose code compile() accepted
    v_matched       \* history: the attempts whose output matched the reference

env_vars     == <<pdf_exists, csv_exists, csv_parses, api_key>>
history_vars == <<tested, gen_empty, exact_at, first_pass, err_at>>
cmp_vars     == <<cmp_result, cmp_expected, cmp_out>>
store_vars   == <<written_by, lost>>
variant_vars ==
    <<v_state, attempt, v_code, attempt_files, v_pc, v_writes, v_loaded,
      v_compiled, v_matched>>
vars ==
    <<pdf_exists, csv_exists, csv_parses, state, analysis, plan, test_result,
      parser_file, temp_test, llm_calls, pc, ret, tested, gen_empty, exact_at,
      first_pass, err_at, cmp_result, cmp_expected, cmp_out, api_key, exit_code,
      backend_requests, prompt, child, gen_failed, written_by, lost, printed,
      debug_calls, vcmp_out, v_state, attempt, v_code, attempt_files, v_pc,
      v_writes, v_loaded, v_compiled, v_matched>>

\* AgentState(...) as run constructs it
NewAgentState ==
    [attempts     |-> 0,
     max_attempts |-> MaxAttempts,
     current_code |-> <<>>,
     errors       |-> <<>>,
     test_results |-> <<>>,
     success      |-> FALSE]

Absent == [exists |-> FALSE, text |-> <<>>]

\* A parser left by an earlier session (the repository ships icici_parser.py).
StaleParser == [exists |-> TRUE, text |-> <<IMPORT, NL, PARSE_FILLNA>>]

NoResult == [success |-> FALSE, result |-> <<>>]

NoPrompt == [previous_code |-> <<>>, previous_errors |-> <<>>]

Init ==
    /\ pdf_exists \in BOOLEAN
    /\ csv_exists \in BOOLEAN
    /\ csv_parses \in {p \in BOOLEAN : p => csv_exists}
    /\ api_key \in BOOLEAN
    /\ state = NewAgentState
    /\ analysis = "unset"
    /\ plan = <<>>
    /\ test_result = NoResult
    /\ parser_file \in {Absent, StaleParser}
    /\ temp_test = FALSE
    /\ llm_calls = 0
    /\ pc = IF api_key THEN "check_files" ELSE "config_error"
    /\ ret = "none"
    /\ tested = {}
    /\ gen_empty = {}
    /\ exact_at = {}
    /\ first_pass = 0
    /\ err_at = <<>>
    /\ cmp_result = expected_df
    /\ cmp_expected = expected_df
    /\ cmp_out = "not run"
    /\ exit_code = -1
    /\ backend_requests = 0
    /\ prompt = NoPrompt
    /\ child = "none"
    /\ gen_failed = {}
    /\ written_by = 0
    /\ lost = FALSE
    /\ printed = 0
    /\ debug_calls = 0
    /\ vcmp_out = "not run"
    /\ v_state = NewAgentState
    /\ attempt = 0
    /\ v_code = <<>>
    /\ attempt_files = [k \in 1..MaxAttempts |-> Absent]
    /\ v_pc = "idle"
    /\ v_writes = <<>>
    /\ v_loaded = {}
    /\ v_compiled = {}
    /\ v_matched = {}

\* The history of who appended to state.errors follows every change of it.
ErrAtFollows ==
    err_at' = IF Len(state'.errors) > Len(state.errors)
              THEN Append(err_at, state.attempts)
              ELSE err_at

\* run: "Check if required files exist"
CheckFiles ==
    /\ pc = "check_files"
    /\ IF ~pdf_exists \/ ~csv_exists
       THEN pc' = "done" /\ ret' = "False"
       ELSE pc' = "analyze" /\ ret' = ret
    /\ UNCHANGED <<env_vars, state, analysis, plan, test_result, parser_file,
                   temp_test, llm_calls, history_vars, cmp_vars,
                   exit_code, backend_requests, prompt, child, gen_failed, store_vars,
                   printed, debug_calls, vcmp_out, variant_vars>>

\* analyze_data: the schema of the CSV, {} when reading it raised
CsvSchema(parses) ==
    IF parses THEN {"columns", "dtypes", "sample_rows", "shape"} ELSE {}

AnalyzeData ==
    /\ pc = "analyze"
    /\ analysis' = CsvSchema(csv_parses)
    /\ pc' = "loop"
    /\ UNCHANGED <<env_vars, state, plan, test_result, parser_file, temp_test,
                   llm_calls, ret, history_vars, cmp_vars,
                   exit_code, backend_requests, prompt, child, gen_failed, store_vars,
                   printed, debug_calls, vcmp_out, variant_vars>>

\* The loop condition off by one.
LoopCond_OffByOne(st) == st.attempts <= st.max_attempts /\ ~st.success

\* run: the condition of the while loop
LoopCond(st) == st.attempts < st.max_attempts /\ ~st.success

\* run: the loop test and, when it holds, state.attempts += 1
LoopTest ==
    /\ pc = "loop"
    /\ IF LoopCond(state)
       THEN /\ state' = [state EXCEPT !.attempts = @ + 1]
            /\ pc' = "plan"
       ELSE /\ state' = state
            /\ pc' = "summary"
    /\ UNCHANGED <<env_vars, analysis, plan, test_result, parser_file, temp_test,
                   llm_calls, ret, history_vars, cmp_vars,
                   exit_code, backend_requests, prompt, child, gen_failed, store_vars,
                   printed, debug_calls, vcmp_out, variant_vars>>

\* _call_llm with a request that is sent again when the backend raised.
LLMRequests_RetryOnError(reply) == IF reply.ok THEN 1 ELSE 2

\* _call_llm: the requests one invocation sends to the backend
LLMRequests(reply) == 1

\* plan_approach: one request to the backend
PlanApproach ==
    /\ pc = "plan"
    /\ \E reply \in {[ok |-> TRUE, text |-> <<PROSE>>], [ok |-> TRUE, text |-> <<>>],
                     [ok |-> FALSE, text |-> <<>>]} :
          /\ plan' = CallLLM(reply)
          /\ backend_requests' = backend_requests + LLMRequests(reply)
    /\ llm_calls' = llm_calls + 1
    /\ pc' = "generate"
    /\ UNCHANGED <<env_vars, state, analysis, test_result, parser_file, temp_test,
                   ret, history_vars, cmp_vars, exit_code, prompt, child,
                   gen_failed, store_vars,
                   printed, debug_calls, vcmp_out, variant_vars>>

\* The prompt with the first diagnosis of the history instead of the last.
PromptErrors_First(st) ==
    IF st.errors # <<>> THEN st.errors[1] ELSE <<"None">>

\* generate_parser_code: "Previous errors to fix" of the prompt
PromptErrors(st) ==
    IF st.errors # <<>> THEN st.errors[Len(st.errors)] ELSE <<"None">>

\* generate_parser_code: the attempt number of its first message
ReportedAttempt(st) == st.attempts + 1

\* generate_parser_code: "Previous failed code (if any)" of the prompt
PromptCode(st) == IF st.attempts > 0 THEN st.current_code ELSE <<"None">>

\* generate_parser_code, and run's state.current_code = code.  Building the
\* prompt reads analysis['csv_schema']['columns'] and raises KeyError when the
\* schema is {}; run does not catch it.
GenerateParserCode ==
    /\ pc = "generate"
    /\ printed' = ReportedAttempt(state)
    /\ IF "columns" \notin analysis
       THEN /\ pc' = "raised"
            /\ ret' = "KeyError"
            /\ UNCHANGED <<state, llm_calls, gen_empty, backend_requests, prompt,
                           gen_failed>>
       ELSE /\ prompt' = [previous_code   |-> PromptCode(state),
                        previous_errors |-> PromptErrors(state)]
            /\ \E reply \in Replies :
                 /\ state' = [state EXCEPT
                                !.current_code = CleanGeneratedCode(CallLLM(reply))]
                 /\ gen_empty' = IF CallLLM(reply) = <<>>
                                 THEN gen_empty \cup {state.attempts}
                                 ELSE gen_empty
                 /\ gen_failed' = IF ~reply.ok
                                  THEN gen_failed \cup {state.attempts}
                                  ELSE gen_failed
                 /\ backend_requests' = backend_requests + LLMRequests(reply)
            /\ llm_calls' = llm_calls + 1
            /\ pc' = "save"
            /\ ret' = ret
    /\ UNCHANGED <<env_vars, analysis, plan, test_result, parser_file, temp_test,
                   tested, exact_at, first_pass, err_at, cmp_vars, exit_code, child,
                   store_vars, debug_calls, vcmp_out, variant_vars>>

\* save_parser that records its error twice.
SaveFailed_Twice(st) ==
    [st EXCEPT !.errors = Append(Append(@, <<"Save error">>), <<"Save error">>)]

\* save_parser that returns False without recording the error.
SaveFailed_NotRecorded(st) == st

\* save_parser, when mkdir, open or write raised: the error is recorded
SaveFailed(st) == [st EXCEPT !.errors = Append(@, <<"Save error">>)]

\* run without the continue after a failed save.
PcAfterSave_NoContinue(saved) == "test"

\* run: "if not self.save_parser(state, code): continue"
PcAfterSave(saved) == IF saved THEN "test" ELSE "loop"

\* save_parser, and run's "if not self.save_parser(state, code): continue"
SaveParser ==
    /\ pc = "save"
    /\ \E io \in {"ok", "mkdir or open raises", "write raises"} :
          CASE io = "ok" ->
                 /\ parser_file' = [exists |-> TRUE, text |-> state.current_code]
                 /\ written_by' = state.attempts
                 /\ state' = state
                 /\ pc' = PcAfterSave(TRUE)
            [] io = "mkdir or open raises" ->
                 /\ parser_file' = parser_file
                 /\ written_by' = written_by
                 /\ state' = SaveFailed(state)
                 /\ pc' = PcAfterSave(FALSE)
            [] io = "write raises" ->
                 /\ parser_file' = [exists |-> TRUE, text |-> <<>>]
                 /\ written_by' = 0
                 /\ state' = SaveFailed(state)
                 /\ pc' = PcAfterSave(FALSE)
    /\ lost' = (lost \/ (written_by # 0 /\ parser_file'.text # parser_file.text))
    /\ prompt' = NoPrompt
    /\ ErrAtFollows
    /\ UNCHANGED <<env_vars, analysis, plan, test_result, temp_test, llm_calls,
                   ret, tested, gen_empty, exact_at, first_pass, cmp_vars,
                   exit_code, backend_requests, child, gen_failed,
                   printed, debug_calls, vcmp_out, variant_vars>>

\* Whether the module text returns a DataFrame from parse(), and which.
ReturnsFrame(code) ==
    SyntaxOK(code) /\ DefinesParse(code) /\ ParseBody(code) \in FrameBodies

\* An exact match: same shape, same columns in the same order, same cells
\* (a missing value matching only a missing value at the same place).
ExactMatch(result_df, exp_df) ==
    /\ Shape(result_df) = Shape(exp_df)
    /\ result_df.columns = exp_df.columns
    /\ \A i \in 1..Len(exp_df.rows) : \A j \in 1..Len(exp_df.columns) :
          result_df.rows[i][j] = exp_df.rows[i][j]

\* test_parser that reports success whatever the child's exit code.
TestOutcome_IgnoresExitCode(proc) == [success |-> TRUE, result |-> <<proc.out>>]

\* test_parser: what it returns for a child process that ended in time
TestOutcome(proc) ==
    IF proc.returncode = 0
    THEN [success |-> TRUE, result |-> <<proc.out>>]
    ELSE [success |-> FALSE, result |-> <<"Test failed:", proc.out>>]

TestTimeout == [success |-> FALSE, result |-> <<"Test timeout (>30 seconds)">>]

TestError == [success |-> FALSE, result |-> <<"Test error:">>]

\* A timeout that leaves the child process running.
ChildAfterTimeout_LeftRunning == "running"

\* subprocess.run(..., timeout=30): on expiry the child is killed and waited for
ChildAfterTimeout == "killed"

\* test_parser: write temp_test.py, run it in a child process for at most 30
\* seconds, remove it, and turn the outcome into (success, result).  The script
\* imports the file at state.parser_path.
TestParser ==
    /\ pc = "test"
    /\ \E env \in {"ok", "cannot write temp_test.py", "slow"} :
          LET proc      == TestScript(parser_file.text, expected_df)
              timed_out == env = "slow" \/ proc.out = "hang"
          IN  /\ CASE env = "cannot write temp_test.py" ->
                        /\ test_result' = TestError
                        /\ temp_test' = temp_test
                        /\ child' = child
                   [] env # "cannot write temp_test.py" /\ timed_out ->
                        /\ test_result' = TestTimeout
                        /\ temp_test' = TRUE
                        /\ child' = ChildAfterTimeout
                   [] OTHER ->
                        /\ test_result' = TestOutcome(proc)
                        /\ temp_test' = FALSE
                        /\ child' = "exited"
              /\ exact_at' =
                    IF /\ env = "ok"
                       /\ ReturnsFrame(parser_file.text)
                       /\ ExactMatch(Output(ParseBody(parser_file.text)), expected_df)
                    THEN exact_at \cup {state.attempts}
                    ELSE exact_at
    /\ first_pass' = IF first_pass = 0 /\ test_result'.success
                     THEN state.attempts
                     ELSE first_pass
    /\ tested' = tested \cup {state.attempts}
    /\ pc' = "handle"
    /\ UNCHANGED <<env_vars, state, analysis, plan, parser_file, llm_calls, ret,
                   gen_empty, err_at, cmp_vars, exit_code, backend_requests, prompt,
                   gen_failed, store_vars,
                   printed, debug_calls, vcmp_out, variant_vars>>

\* The else branch that records nothing for a timeout.
AfterTest_SkipsTimeout(st, tr) ==
    IF tr.success
    THEN [st EXCEPT !.success = TRUE]
    ELSE IF tr.result = <<"Test timeout (>30 seconds)">> THEN st
    ELSE [st EXCEPT !.errors = Append(@, tr.result),
                    !.test_results =
                        Append(@, [attempt |-> st.attempts, error |-> tr.result])]

\* run: "if success: ... else: ..." on the session record
AfterTest(st, tr) ==
    IF tr.success
    THEN [st EXCEPT !.success = TRUE]
    ELSE [st EXCEPT !.errors = Append(@, tr.result),
                    !.test_results =
                        Append(@, [attempt |-> st.attempts, error |-> tr.result])]

\* The branch on the test's result without the break.
PcAfterTest_NoBreak(st, success) ==
    IF st.attempts < st.max_attempts THEN "debug" ELSE "loop"

\* The branch on the test's result that calls self_debug after every failure.
PcAfterTest_DebugAlways(st, success) == IF success THEN "summary" ELSE "debug"

\* run: where control goes after the test: break, self_debug, or the loop test
PcAfterTest(st, success) ==
    IF success THEN "summary"
    ELSE IF st.attempts < st.max_attempts THEN "debug"
    ELSE "loop"

HandleResult ==
    /\ pc = "handle"
    /\ state' = AfterTest(state, test_result)
    /\ pc' = PcAfterTest(state, test_result.success)
    /\ ErrAtFollows
    /\ UNCHANGED <<env_vars, analysis, plan, test_result, parser_file, temp_test,
                   llm_calls, ret, tested, gen_empty, exact_at, first_pass,
                   cmp_vars,
                   exit_code, backend_requests, prompt, child, gen_failed, store_vars,
                   printed, debug_calls, vcmp_out, variant_vars>>

\* self_debug: one request to the backend; its answer is only printed
SelfDebug ==
    /\ pc = "debug"
    /\ \E reply \in {[ok |-> TRUE, text |-> <<PROSE>>], [ok |-> FALSE, text |-> <<>>]} :
          backend_requests' = backend_requests + LLMRequests(reply)
    /\ llm_calls' = llm_calls + 1
    /\ debug_calls' = debug_calls + 1
    /\ pc' = "loop"
    /\ UNCHANGED <<env_vars, state, analysis, plan, test_result, parser_file,
                   temp_test, ret, history_vars, cmp_vars, exit_code, prompt, child,
                   gen_failed, store_vars, printed, vcmp_out, variant_vars>>

\* run: the final summary and "return state.success"
Summary ==
    /\ pc = "summary"
    /\ ret' = IF state.success THEN "True" ELSE "False"
    /\ pc' = "done"
    /\ UNCHANGED <<env_vars, state, analysis, plan, test_result, parser_file,
                   temp_test, llm_calls, history_vars, cmp_vars,
                   exit_code, backend_requests, prompt, child, gen_failed, store_vars,
                   printed, debug_calls, vcmp_out, variant_vars>>

\* main that exits with 0 whatever run returned.
ExitCode_AlwaysZero(p, r) == 0

\* main: sys.exit(0 if success else 1), and sys.exit(1) in both except clauses
ExitCode(p, r) == IF p = "done" /\ r = "True" THEN 0 ELSE 1

\* main: the process exits, after run returned or raised, or after the
\* constructor raised ValueError for a missing API key
Exit ==
    /\ pc \in {"done", "raised", "config_error"}
    /\ exit_code = -1
    /\ exit_code' = ExitCode(pc, ret)
    /\ UNCHANGED <<env_vars, state, analysis, plan, test_result, parser_file,
                   temp_test, llm_calls, pc, ret, history_vars, cmp_vars,
                   backend_requests, prompt, child, gen_failed, store_vars,
                   printed, debug_calls, vcmp_out, variant_vars>>

Next ==
    \/ CheckFiles
    \/ AnalyzeData
    \/ LoopTest
    \/ PlanApproach
    \/ GenerateParserCode
    \/ SaveParser
    \/ TestParser
    \/ HandleResult
    \/ SelfDebug
    \/ Summary
    \/ Exit

Spec == Init /\ [][Next]_vars

-----------------------------------------------------------------------------
(* The comparison of the test script, on its own *)

\* Reference datasets: every frame with the columns of result.csv.
References == { f \in Frames : f.columns = expected_df.columns }

InitCmp ==
    /\ pdf_exists = TRUE
    /\ csv_exists = TRUE
    /\ csv_parses = TRUE
    /\ api_key = TRUE
    /\ state = NewAgentState
    /\ analysis = "unset"
    /\ plan = <<>>
    /\ test_result = NoResult
    /\ parser_file = Absent
    /\ temp_test = FALSE
    /\ llm_calls = 0
    /\ pc = "check_files"
    /\ ret = "none"
    /\ tested = {}
    /\ gen_empty = {}
    /\ exact_at = {}
    /\ first_pass = 0
    /\ err_at = <<>>
    /\ cmp_result \in Frames
    /\ cmp_expected \in References
    /\ cmp_out = "not run"
    /\ exit_code = -1
    /\ backend_requests = 0
    /\ prompt = NoPrompt
    /\ child = "none"
    /\ gen_failed = {}
    /\ written_by = 0
    /\ lost = FALSE
    /\ printed = 0
    /\ debug_calls = 0
    /\ vcmp_out = "not run"
    /\ v_state = NewAgentState
    /\ attempt = 0
    /\ v_code = <<>>
    /\ attempt_files = [k \in 1..MaxAttempts |-> Absent]
    /\ v_pc = "idle"
    /\ v_writes = <<>>
    /\ v_loaded = {}
    /\ v_compiled = {}
    /\ v_matched = {}

\* The test script from "result_df = parse(pdf_path)" on, for a parse that
\* returned cmp_result and a CSV that holds cmp_expected.
RunComparison ==
    /\ cmp_out = "not run"
    /\ cmp_out' = CompareFrames(cmp_result, cmp_expected)
    /\ UNCHANGED <<env_vars, state, analysis, plan, test_result, parser_file,
                   temp_test, llm_calls, pc, ret, history_vars, cmp_result,
                   cmp_expected,
                   exit_code, backend_requests, prompt, child, gen_failed, store_vars,
                   printed, debug_calls, vcmp_out, variant_vars>>

NextCmp == RunComparison

SpecCmp == InitCmp /\ [][NextCmp]_vars

-----------------------------------------------------------------------------
(* The variant controller, custom_parsers/icici_parser_attempt3.py: text *)

\* What is left of the fence with the language tag once the backquotes are
\* removed.
LANG == "python"

\* What the backend may answer to the variant's request: nothing, blank
\* lines, an empty fenced block, bare code, and code in fences or after prose.
VariantResponses ==
    {<<>>, <<NL>>, <<FENCE, NL, FENCE>>, <<FENCE_PY, NL, FENCE>>}
    \cup { <<b>> : b \in Bodies }
    \cup { <<FENCE_PY, NL, b, NL, FENCE>> : b \in {PARSE_EXACT, SYNTAX_ERROR} }
    \cup {<<FENCE, NL, PARSE_EXACT, NL, FENCE>>,
          <<PROSE, NL, PARSE_EXACT>>,
          <<PROSE, NL, FENCE_PY, NL, IMPORT, NL, PARSE_EXACT, NL, FENCE, NL, PROSE>>}

VariantReplies ==
    [ok : {TRUE}, text : VariantResponses] \cup {[ok |-> FALSE, text |-> <<>>]}

\* run: the fences are stripped when the answer starts with three backquotes
UnFence(code) ==
    IF code # <<>> /\ Head(code) \in {FENCE, FENCE_PY}
    THEN LET stripped == Strip(code)
             untagged == IF Head(stripped) = FENCE_PY
                         THEN Strip(Tail(stripped))
                         ELSE stripped
         IN  IF untagged # <<>> /\ untagged[Len(untagged)] = FENCE
             THEN Strip(SubSeq(untagged, 1, Len(untagged) - 1))
             ELSE untagged
    ELSE code

\* str.splitlines()
RECURSIVE SplitLines(_)
SplitLines(s) ==
    IF s = <<>> THEN <<>>
    ELSE LET i == Find(s, NL) IN
         <<SubSeq(s, 1, i - 1)>>
         \o (IF i >= Len(s) THEN <<>> ELSE SplitLines(SubSeq(s, i + 1, Len(s))))

\* "\n".join(lines)
RECURSIVE JoinLines(_)
JoinLines(lines) ==
    IF lines = <<>> THEN <<>>
    ELSE IF Len(lines) = 1 THEN lines[1]
    ELSE lines[1] \o <<NL>> \o JoinLines(Tail(lines))

\* line.strip().startswith(("import", "def"))
StartsCode(line) == line # <<>> /\ Head(line) \in {IMPORT} \cup Bodies

\* run: the lines from the first import or def to the last line that is not
\* blank; the text as it is when there is no such first line
TrimToCode(code) ==
    LET lines  == SplitLines(code)
        starts == {i \in 1..Len(lines) : StartsCode(lines[i])}
        ends   == {i \in 1..Len(lines) : lines[i] # <<>>}
    IN  IF starts # {} /\ ends # {}
        THEN LET start == CHOOSE i \in starts : \A j \in starts : i <= j
                 end   == CHOOSE i \in ends : \A j \in ends : j <= i
             IN  JoinLines(SubSeq(lines, start, end))
        ELSE code

\* run: the code extracted from the backend's answer
VariantExtract(text) == TrimToCode(UnFence(text))

\* str.replace of the backquote by nothing: a fence loses its backquotes
RECURSIVE RemoveBackquotes(_)
RemoveBackquotes(s) ==
    IF s = <<>> THEN <<>>
    ELSE (CASE Head(s) = FENCE    -> <<>>
            [] Head(s) = FENCE_PY -> <<LANG>>
            [] OTHER              -> <<Head(s)>>)
         \o RemoveBackquotes(Tail(s))

\* run: code.strip(), then the triple quotes and the backquotes are removed;
\* the texts here hold no triple quotes
VariantSanitize(code) == RemoveBackquotes(Strip(code))

\* What exec_module and module.parse do with the module text: the exception
\* they raise, or the body of parse.
LoadModule(code) ==
    IF Contains(code, LANG) THEN "NameError"
    ELSE IF ~DefinesParse(code) THEN "AttributeError"
    ELSE ParseBody(code)

-----------------------------------------------------------------------------
(* The variant controller: comparison *)

\* run: common_cols, the names among them that the frames here can have
common_cols == <<"Debit Amt", "Credit Amt">>

HasColumns(df, cols) == \A k \in 1..Len(cols) : Contains(df.columns, cols[k])

\* df[cols].reset_index(drop=True): the named columns, in the order of cols
SelectColumns(df, cols) ==
    [columns |-> cols,
     rows    |-> [i \in 1..Len(df.rows) |->
                    [k \in 1..Len(cols) |-> df.rows[i][Find(df.columns, cols[k])]]]]

\* An equality that takes a missing value for 0.
DataFrameEquals_NaNAsZero(a, b) == FillNaZero(a) = FillNaZero(b)

\* DataFrame.equals: same shape, same columns, same cells, two missing
\* values at the same place being equal
DataFrameEquals(a, b) ==
    /\ Shape(a) = Shape(b)
    /\ a.columns = b.columns
    /\ \A i \in 1..Len(a.rows) : \A j \in 1..Len(a.columns) :
          \/ a.rows[i][j] = NaN /\ b.rows[i][j] = NaN
          \/ a.rows[i][j] # NaN /\ b.rows[i][j] # NaN /\ a.rows[i][j] = b.rows[i][j]

\* run: the comparison of the candidate's output with the reference.  The
\* cells here are numbers or missing, which pd.to_numeric leaves as they are.
VariantCompare(result_df, exp_df) ==
    IF ~HasColumns(result_df, common_cols) \/ ~HasColumns(exp_df, common_cols)
    THEN "KeyError"
    ELSE IF DataFrameEquals(SelectColumns(result_df, common_cols),
                            SelectColumns(exp_df, common_cols))
         THEN "match"
         ELSE "mismatch"

\* The comparison for a parse that returned cmp_result and a CSV that holds
\* cmp_expected.
RunVariantComparison ==
    /\ vcmp_out = "not run"
    /\ vcmp_out' = VariantCompare(cmp_result, cmp_expected)
    /\ UNCHANGED <<env_vars, state, analysis, plan, test_result, parser_file,
                   temp_test, llm_calls, pc, ret, history_vars, cmp_vars,
                   exit_code, backend_requests, prompt, child, gen_failed,
                   store_vars, printed, debug_calls, variant_vars>>

NextVariantCmp == RunVariantComparison

SpecVariantCmp == InitCmp /\ [][NextVariantCmp]_vars

-----------------------------------------------------------------------------
(* The variant controller: run *)

\* The variables of agent.py's session, which the variant leaves alone.
session_vars ==
    <<env_vars, state, analysis, plan, test_result, parser_file, temp_test,
      llm_calls, pc, ret, history_vars, cmp_vars, exit_code, backend_requests,
      prompt, child, gen_failed, store_vars, printed, debug_calls, vcmp_out>>

\* A parser file of an earlier session (the repository ships three).
StaleAttempt == [exists |-> TRUE, text |-> <<PARSE_FILLNA>>]

InitVariant ==
    /\ pdf_exists = TRUE
    /\ csv_exists \in BOOLEAN
    /\ csv_parses \in {p \in BOOLEAN : p => csv_exists}
    /\ api_key = TRUE
    /\ state = NewAgentState
    /\ analysis = "unset"
    /\ plan = <<>>
    /\ test_result = NoResult
    /\ parser_file = Absent
    /\ temp_test = FALSE
    /\ llm_calls = 0
    /\ pc = "idle"
    /\ ret = "none"
    /\ tested = {}
    /\ gen_empty = {}
    /\ exact_at = {}
    /\ first_pass = 0
    /\ err_at = <<>>
    /\ cmp_result = expected_df
    /\ cmp_expected = expected_df
    /\ cmp_out = "not run"
    /\ exit_code = -1
    /\ backend_requests = 0
    /\ prompt = NoPrompt
    /\ child = "none"
    /\ gen_failed = {}
    /\ written_by = 0
    /\ lost = FALSE
    /\ printed = 0
    /\ debug_calls = 0
    /\ vcmp_out = "not run"
    /\ v_state = NewAgentState
    /\ attempt = 0
    /\ v_code = <<>>
    /\ attempt_files \in {[k \in 1..MaxAttempts |-> f] : f \in {Absent, StaleAttempt}}
    /\ v_pc = "for"
    /\ v_writes = <<>>
    /\ v_loaded = {}
    /\ v_compiled = {}
    /\ v_matched = {}

\* run: for attempt in range(1, state.max_attempts + 1), and the message
\* after the loop
VariantFor ==
    /\ v_pc = "for"
    /\ IF attempt < v_state.max_attempts
       THEN attempt' = attempt + 1 /\ v_pc' = "prompt"
       ELSE attempt' = attempt /\ v_pc' = "failed"
    /\ UNCHANGED <<session_vars, v_state, v_code, attempt_files, v_writes,
                   v_loaded, v_compiled, v_matched>>

\* generate_code_prompt: analyze_csv_pattern reads the reference with
\* pd.read_csv outside every try
VariantPrompt ==
    /\ v_pc = "prompt"
    /\ v_pc' = IF csv_parses THEN "call" ELSE "raised"
    /\ UNCHANGED <<session_vars, v_state, attempt, v_code, attempt_files,
                   v_writes, v_loaded, v_compiled, v_matched>>

\* run: _call_llm, the extraction of the code, "if not code.strip():
\* continue", and the sanitising
VariantGenerate ==
    /\ v_pc = "call"
    /\ \E reply \in VariantReplies :
          LET code == VariantExtract(CallLLM(reply)) IN
          IF Strip(code) = <<>>
          THEN v_code' = code /\ v_pc' = "for"
          ELSE v_code' = VariantSanitize(code) /\ v_pc' = "save"
    /\ UNCHANGED <<session_vars, v_state, attempt, attempt_files, v_writes,
                   v_loaded, v_compiled, v_matched>>

\* The path of attempt 1 for every attempt.
TempPath_Fixed(k) == 1

\* run: temp_path, {bank}_parser_attempt{attempt}.py for the bank of the
\* session, named here by the attempt index it encodes
TempPath(k) == k

\* run: mkdir, open(temp_path, 'w') and write
VariantSave ==
    /\ v_pc = "save"
    /\ \E io \in {"ok", "mkdir or open raises", "write raises"} :
          /\ attempt_files' =
                CASE io = "ok" ->
                       [attempt_files EXCEPT ![TempPath(attempt)] =
                            [exists |-> TRUE, text |-> v_code]]
                  [] io = "write raises" ->
                       [attempt_files EXCEPT ![TempPath(attempt)] =
                            [exists |-> TRUE, text |-> <<>>]]
                  [] OTHER -> attempt_files
          /\ v_writes' =
                IF io = "mkdir or open raises" THEN v_writes
                ELSE Append(v_writes, [attempt |-> attempt,
                                       path    |-> TempPath(attempt),
                                       code    |-> v_code,
                                       ok      |-> io = "ok"])
          /\ v_pc' = IF io = "ok" THEN "compile" ELSE "for"
    /\ UNCHANGED <<session_vars, v_state, attempt, v_code, v_loaded,
                   v_compiled, v_matched>>

\* run: compile(code, ...), and continue on SyntaxError
PcAfterCompile(code) == IF SyntaxOK(code) THEN "load" ELSE "for"

VariantCompile ==
    /\ v_pc = "compile"
    /\ v_compiled' = IF SyntaxOK(v_code) THEN v_compiled \cup {attempt}
                     ELSE v_compiled
    /\ v_pc' = PcAfterCompile(v_code)
    /\ UNCHANGED <<session_vars, v_state, attempt, v_code, attempt_files,
                   v_writes, v_loaded, v_matched>>

\* run: exec_module on the file at temp_path, parse(pdf_path) in the
\* controller's own process, the comparison, and return on a match
VariantLoad ==
    /\ v_pc = "load"
    /\ LET text == attempt_files[TempPath(attempt)].text
           r    == IF SyntaxOK(text) THEN LoadModule(text) ELSE "SyntaxError"
       IN  /\ v_loaded' = v_loaded \cup {[attempt |-> attempt, code |-> text]}
           /\ CASE r = PARSE_HANGS ->
                     v_pc' = "hung" /\ v_matched' = v_matched
                [] r \in FrameBodies /\ VariantCompare(Output(r), expected_df) = "match" ->
                     v_pc' = "matched" /\ v_matched' = v_matched \cup {attempt}
                [] OTHER ->
                     v_pc' = "for" /\ v_matched' = v_matched
    /\ UNCHANGED <<session_vars, v_state, attempt, v_code, attempt_files,
                   v_writes, v_compiled>>

NextVariant ==
    \/ VariantFor
    \/ VariantPrompt
    \/ VariantGenerate
    \/ VariantSave
    \/ VariantCompile
    \/ VariantLoad

SpecVariant == InitVariant /\ [][NextVariant]_vars

-----------------------------------------------------------------------------
(* Properties of the session *)

\* C1: state.attempts never exceeds state.max_attempts, and once the attempt
\* numbered max_attempts has finished the loop starts no further attempt: the
\* loop test sends run to its final summary and the counter stays.
C1_AttemptsBounded ==
    /\ [](state.attempts <= state.max_attempts)
    /\ [][state.attempts = state.max_attempts => state'.attempts = state.attempts]_vars
    /\ [][(pc = "loop" /\ state.attempts = state.max_attempts) => pc' = "summary"]_vars

\* The session ended after max_attempts failed attempts.
C1_Witness ==
    pc = "done" /\ state.attempts = state.max_attempts /\ ~state.success

\* C2: when run has returned, state.success (and the value returned) is true
\* if and only if some attempt's output was an exact match of the reference:
\* same shape, same columns in the same order, the same value in every cell.
C2_SuccessIffExactMatch ==
    pc = "done" =>
        /\ state.success <=> exact_at # {}
        /\ ret = "True" <=> state.success

\* C3: a session that enters the loop ends in one of two ways: run returns
\* True with state.success set, or run returns False after max_attempts
\* attempts; it never ends any other way.
C3_TwoOutcomes ==
    /\ pc # "raised"
    /\ (pc = "done" /\ state.attempts > 0) =>
          \/ ret = "True" /\ state.success
          \/ ret = "False" /\ ~state.success /\ state.attempts = state.max_attempts

\* C4: when all max_attempts attempts failed, run returns False and
\* state.errors has exactly max_attempts entries, the i-th appended by attempt
\* i, whichever step of the attempt failed.
C4_ExhaustedHistory ==
    (pc = "done" /\ state.attempts = state.max_attempts /\ ~state.success) =>
        /\ ret = "False"
        /\ Len(state.errors) = state.max_attempts
        /\ err_at = [i \in 1..state.max_attempts |-> i]

\* An exhausted session whose attempts failed at different steps.
C4_Witness ==
    /\ pc = "done" /\ state.attempts = state.max_attempts /\ ~state.success
    /\ state.errors[1] = <<"Save error">>
    /\ state.errors[2] = TestTimeout.result
    /\ state.errors[3] = <<"Test failed:", "Shape mismatch">>

\* C5: from the first passing test on, in attempt k, the session record shows
\* success with attempts = k as soon as run has handled the result, no field of
\* the record changes afterwards, no request goes to the backend, and run
\* returns True.
C5_StopsAtFirstPass ==
    /\ []((first_pass # 0 /\ pc # "handle") =>
            state.success /\ state.attempts = first_pass)
    /\ [](pc = "done" /\ first_pass # 0 => ret = "True")
    /\ [][first_pass # 0 => llm_calls' = llm_calls /\ state'.attempts = state.attempts]_vars
    /\ [][state.success => state' = state]_vars

\* The session succeeded in its second attempt.
C5_Witness ==
    /\ pc = "done" /\ ret = "True"
    /\ first_pass = 2 /\ state.attempts = 2 /\ Len(state.errors) = 1

\* C6: an attempt whose generation reply was the empty string (a backend
\* failure included) does not call test_parser.
C6_EmptyGenerationSkipsTest ==
    \A k \in gen_empty : k \notin tested

\* C7: test_parser is called only for code that passes a syntax-only parse.
C7_SyntaxCheckedBeforeTest ==
    pc = "test" => SyntaxOK(state.current_code)

-----------------------------------------------------------------------------
(* Properties of the comparison *)

\* C8: a candidate with the reference's shape and columns that differs from
\* it in at least one cell is not reported as passed.
C8_ValueMismatchRejected ==
    ( /\ cmp_out # "not run"
      /\ Shape(cmp_result) = Shape(cmp_expected)
      /\ cmp_result.columns = cmp_expected.columns
      /\ ~ExactMatch(cmp_result, cmp_expected) )
    => cmp_out # "Parser test passed"

\* C9: the shape is checked before the columns: when the shapes differ the
\* script reports a shape mismatch, whether or not the column names differ
\* too, and it reports a column mismatch only for equal shapes.
C9_ShapeBeforeColumns ==
    cmp_out # "not run" =>
        /\ Shape(cmp_result) # Shape(cmp_expected) => cmp_out = "Shape mismatch"
        /\ cmp_out = "Column mismatch" => Shape(cmp_result) = Shape(cmp_expected)

\* Shapes and column names both differ, and a shape mismatch is reported.
C9_Witness ==
    /\ cmp_out = "Shape mismatch"
    /\ Len(cmp_result.columns) = Len(cmp_expected.columns)
    /\ cmp_result.columns # cmp_expected.columns

SameNames(a, b) == {a[i] : i \in 1..Len(a)} = {b[i] : i \in 1..Len(b)}

\* C10: a candidate with the reference's shape and the reference's column
\* names in another order gets a column mismatch, never a pass.
C10_ColumnOrderSensitive ==
    ( /\ cmp_out # "not run"
      /\ Shape(cmp_result) = Shape(cmp_expected)
      /\ SameNames(cmp_result.columns, cmp_expected.columns)
      /\ cmp_result.columns # cmp_expected.columns )
    => cmp_out = "Column mismatch"

\* The reference's two columns swapped, with the cells swapped along.
C10_Witness ==
    /\ cmp_out = "Column mismatch"
    /\ Len(cmp_expected.rows) > 0
    /\ cmp_result.columns = <<cmp_expected.columns[2], cmp_expected.columns[1]>>
    /\ \A i \in 1..Len(cmp_expected.rows) :
          /\ Len(cmp_result.rows) = Len(cmp_expected.rows)
          /\ cmp_result.rows[i] = <<cmp_expected.rows[i][2], cmp_expected.rows[i][1]>>

-----------------------------------------------------------------------------
(* Properties of the artifact, the executor and the backend adapter *)

\* C11: no save replaces the code that an earlier attempt of the session
\* stored: the code of every attempt saved so far is still on disk.
C11_ArtifactsKept == ~lost

\* parse() of the module text never returns.
Hangs(code) ==
    SyntaxOK(code) /\ DefinesParse(code) /\ ParseBody(code) = PARSE_HANGS

\* C12: a candidate that exceeds the time budget makes test_parser return
\* the timeout failure (it does not raise); run appends that diagnosis, keeps
\* the attempt counter, goes on to self_debug or the loop test, and the loop
\* starts the next attempt unless max_attempts is reached.
C12_TimeoutIsDiagnosis ==
    /\ []((pc = "handle" /\ Hangs(parser_file.text)) =>
            test_result \in {TestTimeout, TestError})
    /\ [][(pc = "handle" /\ test_result = TestTimeout) =>
            /\ state'.errors = Append(state.errors, <<"Test timeout (>30 seconds)">>)
            /\ state'.attempts = state.attempts
            /\ ~state'.success
            /\ pc' = IF state.attempts < state.max_attempts THEN "debug" ELSE "loop"]_vars
    /\ [][(pc = "debug") => pc' = "loop"]_vars
    /\ [][(pc = "loop" /\ ~state.success /\ state.attempts < state.max_attempts) =>
            pc' = "plan" /\ state'.attempts = state.attempts + 1]_vars

\* The second attempt began after the first timed out on a parse() that hangs.
C12_Witness ==
    /\ pc = "plan" /\ state.attempts = 2
    /\ state.errors = <<TestTimeout.result>>
    /\ Hangs(parser_file.text)

\* The candidate is at fault: it does not compile, lacks parse, raises, or
\* returns something that is no DataFrame.
Faulty(code) ==
    \/ ~SyntaxOK(code)
    \/ ~DefinesParse(code)
    \/ ParseBody(code) \in {PARSE_RAISES, PARSE_NOT_DF}

\* C13: a fault of the candidate comes back from test_parser as a failed test
\* with a diagnosis; run appends it, the attempt counter stays (the attempt
\* counts once), run goes on to self_debug or the loop test, and run never
\* ends by an exception once a candidate was tested.
C13_CandidateFaultsContained ==
    /\ []((pc = "handle" /\ Faulty(parser_file.text)) =>
            ~test_result.success /\ test_result.result # <<>>)
    /\ [][(pc = "handle" /\ Faulty(parser_file.text)) =>
            /\ state'.errors = Append(state.errors, test_result.result)
            /\ state'.attempts = state.attempts
            /\ pc' = IF state.attempts < state.max_attempts THEN "debug" ELSE "loop"]_vars
    /\ [](pc = "raised" => tested = {})

\* The second attempt began after the first candidate's parse() raised.
C13_Witness ==
    /\ pc = "plan" /\ state.attempts = 2
    /\ state.errors = << <<"Test failed:", "Exception">> >>

\* C14: with a reference CSV that cannot be parsed, no attempt is started, no
\* request goes to the backend, and run ends unsuccessfully (it returns False).
C14_UnreadableReferenceAborts ==
    ~csv_parses =>
        /\ state.attempts = 0
        /\ llm_calls = 0
        /\ pc # "raised"
        /\ pc = "done" => ret = "False"

\* C15: every invocation of _call_llm sends at most one request; a request
\* that raised yields the empty string; and an attempt whose generation
\* request raised is one failed attempt, with one diagnosis, after which the
\* session goes on: run does not end by an exception because of it.
C15_BackendFailureContained ==
    /\ backend_requests <= llm_calls
    /\ gen_failed \subseteq gen_empty
    /\ \A k \in gen_failed :
          /\ k # first_pass
          /\ (k < state.attempts \/ pc = "done") =>
                Cardinality({i \in 1..Len(err_at) : err_at[i] = k}) = 1
    /\ pc = "raised" => gen_failed = {}

\* The backend failed in attempt 1 and the session succeeded in attempt 2.
C15_Witness ==
    pc = "done" /\ gen_failed = {1} /\ state.success /\ state.attempts = 2

\* C16: the helpers that run calls (analyze_data, plan_approach,
\* generate_parser_code, save_parser, test_parser, self_debug) leave
\* state.attempts and state.errors as they are.
C16_OnlyRunWrites ==
    [][(pc \in {"analyze", "plan", "generate", "save", "test", "debug"}) =>
        (state'.attempts = state.attempts /\ state'.errors = state.errors)]_vars

\* C17: the prompt of attempt 1 names no diagnosis; the prompt of attempt
\* k >= 2 holds the last entry of state.errors, which attempt k-1 recorded.
C17_PromptEmbedsLastDiagnosis ==
    pc = "save" =>
        IF state.attempts = 1
        THEN state.errors = <<>> /\ prompt.previous_errors = <<"None">>
        ELSE /\ state.errors # <<>>
             /\ prompt.previous_errors = state.errors[Len(state.errors)]
             /\ err_at[Len(err_at)] = state.attempts - 1

\* The prompt of attempt 3 after two attempts with different diagnoses.
C17_Witness ==
    /\ pc = "save" /\ state.attempts = 3
    /\ state.errors[1] # state.errors[2]
    /\ prompt.previous_errors = state.errors[2]

\* C18: the process exits with 0 exactly when run returned True, and with 1
\* after exhaustion, a missing input file, a configuration error or an
\* exception out of run.
C18_ExitCode ==
    exit_code # -1 =>
        /\ exit_code = 0 <=> (pc = "done" /\ ret = "True")
        /\ exit_code # 0 => exit_code = 1

\* The process exited with 1 after max_attempts failed attempts.
C18_Witness ==
    /\ exit_code = 1 /\ pc = "done" /\ ret = "False"
    /\ state.attempts = state.max_attempts

\* C19: while an attempt generates, saves and starts its test, no child
\* process of an earlier test is running, a test that timed out included.
C19_NoOverlap ==
    pc \in {"loop", "plan", "generate", "save", "test"} => child # "running"

\* The second attempt begins after the first test timed out.
C19_Witness ==
    /\ pc = "plan" /\ state.attempts = 2
    /\ child = "killed"
    /\ state.errors = <<TestTimeout.result>>

\* C20: a candidate output equal to the reference passes the comparison.
C20_Reflexive ==
    (cmp_out # "not run" /\ cmp_result = cmp_expected) =>
        cmp_out = "Parser test passed"

\* A reference with a missing value compared against itself.
C20_Witness ==
    /\ cmp_out = "Parser test passed"
    /\ cmp_result = cmp_expected
    /\ \E i \in 1..Len(cmp_expected.rows) : cmp_expected.rows[i][1] = NaN

-----------------------------------------------------------------------------
(* Properties of the session record and of the steps of an attempt *)

\* C26: at the end of every iteration len(state.errors) is state.attempts,
\* less one when the session succeeded (a failed attempt appends exactly one
\* diagnosis, a passing attempt none), and no step removes, rewrites or
\* reorders an entry of state.errors.
C26_OneDiagnosisPerFailure ==
    /\ [](pc \in {"debug", "loop", "summary", "done"} =>
            Len(state.errors) = state.attempts - (IF state.success THEN 1 ELSE 0))
    /\ [][/\ Len(state'.errors) >= Len(state.errors)
          /\ SubSeq(state'.errors, 1, Len(state.errors)) = state.errors]_vars

\* A session that passed in attempt 3 after a failed save and a failed test.
C26_Witness ==
    /\ pc = "done" /\ state.success /\ state.attempts = 3
    /\ Len(state.errors) = 2
    /\ \E i \in 1..2 : state.errors[i] = <<"Save error">>
    /\ \E i \in 1..2 : state.errors[i] # <<"Save error">>

\* C27: while test_parser runs and when it has returned, the file at
\* state.parser_path exists, was saved in this attempt and holds
\* state.current_code; after a successful session it holds the code of the
\* attempt that passed.
C27_TestedFileIsCurrent ==
    /\ pc \in {"test", "handle"} =>
          /\ parser_file.exists
          /\ parser_file.text = state.current_code
          /\ written_by = state.attempts
    /\ (pc = "done" /\ state.success) =>
          /\ parser_file.text = state.current_code
          /\ written_by = first_pass

\* The test of attempt 2, whose save replaced the code of attempt 1.
C27_Witness ==
    pc = "test" /\ state.attempts = 2 /\ lost /\ ~parser_file.text = <<>>

\* C28: when test_parser has returned, temp_test.py is removed.
C28_TempTestRemoved == pc = "handle" => ~temp_test

\* C29: self_debug is called exactly once for every attempt whose test failed
\* while attempts < max_attempts, and for nothing else: not after a passing
\* test, a failed save or the last attempt; a session of n attempts makes at
\* most n - 1 calls.
C29_DebugOnlyAfterFailedTest ==
    /\ [][debug_calls' # debug_calls =>
            /\ debug_calls' = debug_calls + 1
            /\ state.attempts \in tested
            /\ ~test_result.success
            /\ state.errors # <<>>
            /\ state.errors[Len(state.errors)] = test_result.result
            /\ state.attempts < state.max_attempts]_vars
    /\ [](pc \in {"loop", "summary", "done"} =>
            debug_calls =
                Cardinality({k \in tested : k # first_pass /\ k < state.max_attempts}))
    /\ []((pc = "done" /\ state.attempts > 0) => debug_calls <= state.attempts - 1)

\* Three attempts, the second with a failed save: one call of self_debug.
C29_Witness ==
    /\ pc = "done" /\ state.attempts = 3 /\ tested = {1, 3}
    /\ debug_calls = 1

\* C30: when generate_parser_code has run in attempt k, the attempt number it
\* printed is k, at most max_attempts, and the prompt's previous failed code
\* is 'None' exactly when k = 1.
C30_ReportedAttempt ==
    pc = "save" =>
        /\ printed = state.attempts
        /\ printed <= state.max_attempts
        /\ prompt.previous_code = <<"None">> <=> state.attempts = 1

-----------------------------------------------------------------------------
(* Properties of the variant controller *)

\* C21: a module is loaded in an attempt only after compile() accepted the
\* code of that attempt, which is the text loaded; code with a syntax error
\* is never loaded; and empty code is neither written to a file nor loaded.
C21_ValidatedBeforeLoad ==
    /\ \A l \in v_loaded :
          /\ l.attempt \in v_compiled
          /\ SyntaxOK(l.code)
          /\ l.code # <<>>
    /\ \A i \in 1..Len(v_writes) : v_writes[i].code # <<>>

\* C22: the path of attempt k encodes k, no two attempts of a session write
\* the same path, and the code an attempt stored stays in its file.
C22_OnePathPerAttempt ==
    /\ \A i \in 1..Len(v_writes) : v_writes[i].path = v_writes[i].attempt
    /\ \A i, j \in 1..Len(v_writes) :
          i # j => v_writes[i].path # v_writes[j].path
    /\ \A i \in 1..Len(v_writes) :
          v_writes[i].ok =>
              attempt_files[v_writes[i].path] =
                  [exists |-> TRUE, text |-> v_writes[i].code]

\* Three attempts stored three different codes.
C22_Witness ==
    /\ Len(v_writes) = 3
    /\ \A i \in 1..3 : v_writes[i].ok
    /\ \A i, j \in 1..3 : i # j => v_writes[i].code # v_writes[j].code

\* C23: a candidate whose columns are the reference's names in another order
\* is reported as a mismatch (stated for references with at least one row).
C23_VariantOrderSensitive ==
    ( /\ vcmp_out # "not run"
      /\ cmp_expected.rows # <<>>
      /\ SameNames(cmp_result.columns, cmp_expected.columns)
      /\ cmp_result.columns # cmp_expected.columns )
    => vcmp_out # "match"

\* The cell of row i in the column called name.
CellAt(df, i, name) == df.rows[i][Find(df.columns, name)]

\* C24: on a match every reference cell that is missing faces a missing
\* candidate cell at the same row and column, and every missing candidate
\* cell a missing reference cell; and a candidate equal to the reference,
\* missing values included, is a match.
C24_AbsentMatchesAbsent ==
    /\ vcmp_out = "match" =>
          \A i \in 1..Len(cmp_expected.rows) : \A k \in 1..Len(common_cols) :
              CellAt(cmp_expected, i, common_cols[k]) = NaN
                  <=> CellAt(cmp_result, i, common_cols[k]) = NaN
    /\ (vcmp_out # "not run" /\ cmp_result = cmp_expected) => vcmp_out = "match"

\* A reference with a missing value, matched by a candidate.
C24_Witness ==
    /\ vcmp_out = "match"
    /\ \E i \in 1..Len(cmp_expected.rows) :
          /\ CellAt(cmp_expected, i, "Credit Amt") = NaN
          /\ CellAt(cmp_expected, i, "Debit Amt") # NaN

\* C25: after n completed attempts state.attempts is n, state.errors holds a
\* diagnosis for every failed attempt, and state.success says whether an
\* attempt's output matched the reference.
C25_SessionRecordTracksLoop ==
    v_pc \in {"for", "matched", "failed"} =>
        /\ v_state.attempts = attempt
        /\ Len(v_state.errors) = attempt - Cardinality(v_matched)
        /\ v_state.success <=> v_matched # {}

=============================================================================
